---- MODULE Spec2Model ----
(***************************************************************************)
(* Model of the documentation generator: generate_docs_github_copilot.py   *)
(* (GitHubCopilotClient, CodebaseAnalyzer, DocumentationGenerator,         *)
(* generate_mermaid_diagrams) driven by main of tech_doc_generator.py.     *)
(*                                                                         *)
(* Text is a sequence of one-character strings, so that lower(), strip(),  *)
(* the "in" substring test, replace() and slicing are computed, not        *)
(* assumed.                                                                *)
(***************************************************************************)
EXTENDS Integers, Sequences, FiniteSets, TLC

VARIABLES
    tree,               \* the files under src/main/java (the file system)
    java_files,         \* analyze_structure: the list find_java_files returned
    i,                  \* position of the running for-loop
    structure,          \* analyze_structure: the dict of seven lists
    pom_content,        \* main: pom_content
    mermaid_diagrams,   \* main: mermaid_diagrams
    overview,           \* main: overview
    architecture,       \* main: architecture
    api_docs,           \* main: api_docs
    component_docs,     \* main: component_docs, the explanations appended so far
    full_documentation, \* main: full_documentation, the sections in order
    calls,              \* the calls of ask_copilot so far, in order (the record of a mock)
    failures,           \* number of requests whose backend failed so far
    pc,                 \* position of main, or of the call under study
    summarized,         \* get_file_summary: its argument file_info
    summary,            \* get_file_summary: the value it returned
    cli_prompt,         \* _ask_via_cli: its argument
    attempts,           \* _ask_via_cli: the subprocess runs of the call, in order
    cli_result          \* _ask_via_cli: the value it returned

vars == <<tree, java_files, i, structure, pom_content, mermaid_diagrams,
          overview, architecture, api_docs, component_docs, full_documentation,
          calls, failures, pc, summarized, summary, cli_prompt, attempts, cli_result>>

\* the variables of the calls that main does not make
call_vars == <<summarized, summary, cli_prompt, attempts, cli_result>>

----------------------------------------------------------------------------
(* Bounds of the model *)

\* largest number of files in the scanned subpath
MaxFiles == 3

\* largest number of text-generation requests whose backend fails in one run
MaxFailures == 1

\* how far past a truncation limit the long file contents reach
MaxOver == 1

----------------------------------------------------------------------------
(* Text *)

Min(a, b) == IF a < b THEN a ELSE b

UpperAlpha == <<"A","B","C","D","E","F","G","H","I","J","K","L","M",
                "N","O","P","Q","R","S","T","U","V","W","X","Y","Z">>

LowerAlpha == <<"a","b","c","d","e","f","g","h","i","j","k","l","m",
                "n","o","p","q","r","s","t","u","v","w","x","y","z">>

\* the lower-case letter of each upper-case letter
LowerOf ==
    [c \in { UpperAlpha[k] : k \in 1..26 } |->
        LowerAlpha[CHOOSE k \in 1..26 : UpperAlpha[k] = c]]

LowerChar(c) == IF c \in DOMAIN LowerOf THEN LowerOf[c] ELSE c

\* str.lower()
Lower(s) == [k \in 1..Len(s) |-> LowerChar(s[k])]

\* the Python test "needle in hay"
Contains(hay, needle) ==
    \E k \in 0..(Len(hay) - Len(needle)) :
        \A j \in 1..Len(needle) : hay[k + j] = needle[j]

\* the Python slice s[:n], n >= 0: the stop is clamped to the length
Prefix(s, n) == SubSeq(s, 1, IF n > Len(s) THEN Len(s) ELSE n)

IsSpace(c) == c \in {" ", "\n", "\t", "\r"}

\* str.strip()
Strip(s) ==
    IF \A k \in 1..Len(s) : IsSpace(s[k]) THEN <<>>
    ELSE LET first == CHOOSE k \in 1..Len(s) :
                        /\ ~IsSpace(s[k])
                        /\ \A j \in 1..(k - 1) : IsSpace(s[j])
             last  == CHOOSE k \in 1..Len(s) :
                        /\ ~IsSpace(s[k])
                        /\ \A j \in (k + 1)..Len(s) : IsSpace(s[j])
         IN SubSeq(s, first, last)

RECURSIVE Replace(_, _)
\* str.replace(old, ''): every non-overlapping occurrence, left to right
Replace(s, old) ==
    IF Len(s) < Len(old) \/ Len(old) = 0 THEN s
    ELSE IF SubSeq(s, 1, Len(old)) = old
         THEN Replace(SubSeq(s, Len(old) + 1, Len(s)), old)
         ELSE <<s[1]>> \o Replace(Tail(s), old)

Digit == <<"0","1","2","3","4","5","6","7","8","9">>

RECURSIVE Str(_)
\* str(n) of a natural number, as the f-string formats it
Str(n) == IF n < 10 THEN <<Digit[n + 1]>> ELSE Str(n \div 10) \o <<Digit[(n % 10) + 1]>>

DotJava == <<".","j","a","v","a">>

----------------------------------------------------------------------------
(* Files of the project tree *)

\* keywords of the classification rules
kwController == <<"c","o","n","t","r","o","l","l","e","r">>
kwService == <<"s","e","r","v","i","c","e">>
kwRepository == <<"r","e","p","o","s","i","t","o","r","y">>
kwModel == <<"m","o","d","e","l">>
kwDto == <<"d","t","o">>
kwConfig == <<"c","o","n","f","i","g">>

\* the components of src_path relative to project_root
SrcPath == <<<<"s","r","c">>, <<"m","a","i","n">>, <<"j","a","v","a">>>>

\* a file below src_path: the directories between src_path and the file, the
\* file name, whether read_text succeeds on it, and its decoded text
File(dirs, name, readable, text) ==
    [dirs |-> dirs, name |-> name, readable |-> readable, text |-> text]

JavaName(stem) == stem \o DotJava

ShortText == <<"@","R","\n","x">>

\* directory names that are not a keyword
dControllerService == <<"c","o","n","t","r","o","l","l","e","r","S","e","r","v","i","c","e">>
dServices == <<"S","e","r","v","i","c","e","s">>
dModelDto == <<"m","o","d","e","l","d","t","o">>
dDtoModelService == <<"d","t","o","m","o","d","e","l","s","e","r","v","i","c","e">>

\* the files a project tree of the analysis runs is drawn from: one directory
\* per rule, directories with several keywords, with upper-case letters and
\* with no keyword, a nested directory, a file directly under src_path, and
\* files whose read fails
AnalyzeFiles ==
    { File(<<kwController>>, JavaName(<<"A">>), TRUE, ShortText),
      File(<<kwController>>, JavaName(<<"B">>), FALSE, ShortText),
      File(<<dControllerService>>, JavaName(<<"C">>), TRUE, ShortText),
      File(<<dServices>>, JavaName(<<"T">>), FALSE, ShortText),
      File(<<kwRepository>>, JavaName(<<"R">>), TRUE, <<>>),
      File(<<kwModel>>, JavaName(<<"M">>), TRUE, ShortText),
      File(<<kwModel, kwDto>>, JavaName(<<"D">>), TRUE, ShortText),
      File(<<dModelDto>>, JavaName(<<"E">>), TRUE, ShortText),
      File(<<dDtoModelService>>, JavaName(<<"F">>), TRUE, ShortText),
      File(<<kwConfig>>, JavaName(<<"K">>), TRUE, ShortText),
      File(<<>>, JavaName(<<"M","a","i","n">>), TRUE, ShortText) }

\* the files a project tree of the pipeline runs is drawn from: three
\* controllers and two services
PipelineFiles ==
    { File(<<kwController>>, JavaName(<<"A">>), TRUE, ShortText),
      File(<<kwController>>, JavaName(<<"B">>), FALSE, ShortText),
      File(<<dControllerService>>, JavaName(<<"C">>), TRUE, ShortText),
      File(<<kwService>>, JavaName(<<"S">>), TRUE, ShortText),
      File(<<dServices>>, JavaName(<<"T">>), FALSE, ShortText) }

\* the trees of at most MaxFiles files drawn from a set of files
Trees(files) == { t \in SUBSET files : Cardinality(t) <= MaxFiles }

\* the orders in which rglob may list the files of a tree
Orders(t) ==
    { o \in [1..Cardinality(t) -> t] :
        \A a, b \in 1..Cardinality(t) : a # b => o[a] # o[b] }

\* file.parent.name: the last directory of the path; src_path itself for a
\* file directly under it
ParentName(f) == IF f.dirs = <<>> THEN SrcPath[3] ELSE f.dirs[Len(f.dirs)]

\* file.relative_to(project_root), as its components
RelativePath(f) == SrcPath \o f.dirs \o <<f.name>>

ErrorReadingFile == <<"E","r","r","o","r"," ","r","e","a","d","i","n","g"," ","f","i","l","e",":"," ","d","e","n","i","e","d">>

read_file_content(f) == IF f.readable THEN f.text ELSE ErrorReadingFile

EmptyStructure ==
    [controllers |-> <<>>, services |-> <<>>, repositories |-> <<>>,
     models |-> <<>>, dtos |-> <<>>, config |-> <<>>, all_files |-> <<>>]

BucketNames == {"controllers", "services", "repositories", "models", "dtos", "config"}

\* Bucket with the service rule tried before the controller rule
BucketServiceFirst(parent) ==
    IF Contains(Lower(parent), kwService) THEN "services"
    ELSE IF Contains(Lower(parent), kwController) THEN "controllers"
    ELSE IF Contains(Lower(parent), kwRepository) THEN "repositories"
    ELSE IF Contains(Lower(parent), kwModel)
         THEN IF Contains(Lower(parent), kwDto) THEN "dtos" ELSE "models"
    ELSE IF Contains(Lower(parent), kwConfig) THEN "config"
    ELSE "none"

\* Bucket with the nested dto test left out
BucketNoDtoSplit(parent) ==
    IF Contains(Lower(parent), kwController) THEN "controllers"
    ELSE IF Contains(Lower(parent), kwService) THEN "services"
    ELSE IF Contains(Lower(parent), kwRepository) THEN "repositories"
    ELSE IF Contains(Lower(parent), kwModel) THEN "models"
    ELSE IF Contains(Lower(parent), kwConfig) THEN "config"
    ELSE "none"

\* the if/elif chain of analyze_structure over file.parent.name.lower():
\* the bucket the file is appended to, "none" when no branch is taken
Bucket(parent) ==
    IF Contains(Lower(parent), kwController) THEN "controllers"
    ELSE IF Contains(Lower(parent), kwService) THEN "services"
    ELSE IF Contains(Lower(parent), kwRepository) THEN "repositories"
    ELSE IF Contains(Lower(parent), kwModel)
         THEN IF Contains(Lower(parent), kwDto) THEN "dtos" ELSE "models"
    ELSE IF Contains(Lower(parent), kwConfig) THEN "config"
    ELSE "none"

\* the file_info dict built for one file
FileInfo(f) ==
    [name |-> f.name, path |-> RelativePath(f), content |-> read_file_content(f)]

\* ClassifyInto that records in all_files only the files it puts in a bucket
ClassifyIntoBucketedOnly(st, f) ==
    IF Bucket(ParentName(f)) = "none" THEN st
    ELSE [st EXCEPT !.all_files = Append(@, FileInfo(f)),
                    ![Bucket(ParentName(f))] = Append(@, FileInfo(f))]

\* ClassifyInto that leaves a file whose read failed out of the buckets
ClassifyIntoReadableOnly(st, f) ==
    LET all == [st EXCEPT !.all_files = Append(@, FileInfo(f))]
    IN IF Bucket(ParentName(f)) = "none" \/ ~f.readable THEN all
       ELSE [all EXCEPT ![Bucket(ParentName(f))] = Append(@, FileInfo(f))]

\* one iteration of the loop of analyze_structure, on the structure so far
ClassifyInto(st, f) ==
    LET all == [st EXCEPT !.all_files = Append(@, FileInfo(f))]
    IN IF Bucket(ParentName(f)) = "none" THEN all
       ELSE [all EXCEPT ![Bucket(ParentName(f))] = Append(@, FileInfo(f))]

----------------------------------------------------------------------------
(* analyze_structure *)

\* the value of a variable of main that is not assigned yet
Unset == <<"unset">>

\* main calls neither get_file_summary nor _ask_via_cli directly
NoDirectCall ==
    /\ summarized = Unset
    /\ summary = Unset
    /\ cli_prompt = Unset
    /\ attempts = <<>>
    /\ cli_result = Unset

InitWith(files) ==
    /\ tree \in Trees(files)
    /\ java_files = <<>>
    /\ i = 0
    /\ structure = EmptyStructure
    /\ pom_content = Unset
    /\ mermaid_diagrams = Unset
    /\ overview = Unset
    /\ architecture = Unset
    /\ api_docs = Unset
    /\ component_docs = <<>>
    /\ full_documentation = <<>>
    /\ calls = <<>>
    /\ failures = 0
    /\ pc = "find"
    /\ NoDirectCall

\* java_files = self.find_java_files(): rglob lists the tree in some order
FindJavaFiles ==
    /\ pc = "find"
    /\ \E o \in Orders(tree) : java_files' = o
    /\ i' = 1
    /\ pc' = "classify"
    /\ UNCHANGED <<call_vars, tree, structure, pom_content, mermaid_diagrams, overview,
                   architecture, api_docs, component_docs, full_documentation,
                   calls, failures>>

\* one iteration of "for file in java_files"
ClassifyFile ==
    /\ pc = "classify"
    /\ i <= Len(java_files)
    /\ structure' = ClassifyInto(structure, java_files[i])
    /\ i' = i + 1
    /\ UNCHANGED <<call_vars, tree, java_files, pom_content, mermaid_diagrams, overview,
                   architecture, api_docs, component_docs, full_documentation,
                   calls, failures, pc>>

\* "return structure", back in main
AnalyzeReturn ==
    /\ pc = "classify"
    /\ i > Len(java_files)
    /\ pc' = "pom"
    /\ UNCHANGED <<call_vars, tree, java_files, i, structure, pom_content, mermaid_diagrams,
                   overview, architecture, api_docs, component_docs,
                   full_documentation, calls, failures>>

\* the text of a pom.xml that exists
PomText == <<" ","<","a","r","t","i","f","a","c","t","I","d",">","w","\n","<","v",">","1","\n","<","a","r","t","i","f","a","c","t","I","d",">","h"," ">>

\* pom_content = analyzer.read_pom_xml(): "" when the file is absent, its text
\* when it decodes; read_text raising ends main
ReadPomXml ==
    /\ pc = "pom"
    /\ \E p \in {"absent", "present", "undecodable"} :
          /\ pom_content' = IF p = "present" THEN PomText
                             ELSE IF p = "absent" THEN <<>> ELSE pom_content
          /\ pc' = IF p = "undecodable" THEN "crashed" ELSE "diagrams"
    /\ UNCHANGED <<call_vars, tree, java_files, i, structure, mermaid_diagrams, overview,
                   architecture, api_docs, component_docs, full_documentation,
                   calls, failures>>

----------------------------------------------------------------------------
(* generate_mermaid_diagrams *)

ClientId == <<"C","l","i","e","n","t">>
DbId == <<"D","B">>

\* the node f"{prefix}{i}[{name}]" of the k-th entry of a layer (i = k - 1)
LayerNode(prefix, k, name) ==
    [id |-> <<prefix>> \o Str(k - 1), label |-> name, layer |-> prefix]

\* the names of a bucket with '.java' removed
DisplayNames(bucket) == [k \in 1..Len(bucket) |-> Replace(bucket[k].name, DotJava)]

LayerNodes(prefix, names) == [k \in 1..Len(names) |-> LayerNode(prefix, k, names[k])]

Edge(from, to, label) == [from |-> from, to |-> to, label |-> label]

\* the edges of the architecture diagram, in the order of the template
ArchEdges(controller_names, service_names, repo_names) ==
    <<Edge(ClientId, <<"C">> \o Str(0), "HTTP/REST")>>
    \o [k \in 1..Min(Len(controller_names), Len(service_names)) |->
            Edge(<<"C">> \o Str(k - 1), <<"S">> \o Str(k - 1), "calls")]
    \o [k \in 1..Min(Len(service_names), Len(repo_names)) |->
            Edge(<<"S">> \o Str(k - 1), <<"R">> \o Str(k - 1), "uses")]
    \o [k \in 1..Len(repo_names) |->
            Edge(<<"R">> \o Str(k - 1), DbId, "JPA")]

\* the node declarations of the architecture diagram, in the order of the template
ArchNodes(controller_names, service_names, repo_names) ==
    <<[id |-> ClientId, label |-> "REST Client", layer |-> "client"]>>
    \o LayerNodes("C", controller_names)
    \o LayerNodes("S", service_names)
    \o LayerNodes("R", repo_names)
    \o <<[id |-> DbId, label |-> "H2 Database", layer |-> "datastore"]>>

\* the fixed sequence diagram
SeqDiagram ==
    [participants |-> <<"Client", "Controller", "Service", "Repository", "Database">>,
     messages |-> <<Edge("Client", "Controller", "HTTP Request"),
                    Edge("Controller", "Controller", "Validate Input"),
                    Edge("Controller", "Service", "Call Business Logic"),
                    Edge("Service", "Repository", "Data Access"),
                    Edge("Repository", "Database", "SQL Query"),
                    Edge("Database", "Repository", "Result Set"),
                    Edge("Repository", "Service", "Domain Object"),
                    Edge("Service", "Controller", "DTO"),
                    Edge("Controller", "Client", "HTTP Response")>>]

generate_mermaid_diagrams(st) ==
    [nodes |-> ArchNodes(DisplayNames(st.controllers), DisplayNames(st.services),
                         DisplayNames(st.repositories)),
     edges |-> ArchEdges(DisplayNames(st.controllers), DisplayNames(st.services),
                         DisplayNames(st.repositories)),
     styled |-> <<ClientId, DbId>>,
     sequence |-> SeqDiagram]

\* mermaid_diagrams = generate_mermaid_diagrams(structure)
RenderDiagrams ==
    /\ pc = "diagrams"
    /\ mermaid_diagrams' = generate_mermaid_diagrams(structure)
    /\ pc' = "overview"
    /\ UNCHANGED <<call_vars, tree, java_files, i, structure, pom_content, overview,
                   architecture, api_docs, component_docs, full_documentation,
                   calls, failures>>

InitAnalyze == InitWith(AnalyzeFiles)

NextAnalyze == FindJavaFiles \/ ClassifyFile \/ AnalyzeReturn \/ ReadPomXml \/ RenderDiagrams

\* analyze_structure, read_pom_xml and generate_mermaid_diagrams on any project tree
SpecAnalyze == InitAnalyze /\ [][NextAnalyze]_vars

----------------------------------------------------------------------------
(* GitHubCopilotClient.ask_copilot *)

\* what one subprocess.run of "gh copilot ..." can do: return with a return
\* code, stdout and stderr, raise TimeoutExpired, or raise another exception
\* (message holds str(e)); "not run" stands for a run that is never started
Run(kind, returncode, stdout, stderr, message) ==
    [kind |-> kind, returncode |-> returncode, stdout |-> stdout, stderr |-> stderr,
     message |-> message]

RunOutcomes ==
    { Run("returned", 0, <<" ","o","k","\n">>, <<>>, <<>>),
      Run("returned", 1, <<>>, <<"n","o">>, <<>>),
      Run("timeout", 0, <<>>, <<>>, <<>>),
      Run("raised", 0, <<>>, <<>>, <<"g","h">>) }

NotRun == Run("not run", 0, <<>>, <<>>, <<>>)

\* the "suggest" runs that can follow an "explain" run: none unless "explain"
\* returned a non-zero code
SuggestOutcomes(explain) ==
    IF explain.kind = "returned" /\ explain.returncode # 0 THEN RunOutcomes ELSE {NotRun}

ErrorPrefix == <<"E","r","r","o","r",":"," ">>

TimedOut == <<"E","r","r","o","r",":"," ","R","e","q","u","e","s","t"," ","t","i","m","e","d"," ","o","u","t">>

\* the outcome of a call that raises instead of returning a string
Raised == <<"raised">>

\* ask_via_cli whose except clauses miss TimeoutExpired: the timeout leaves the call
ask_via_cli_timeout_escapes(explain, suggest) ==
    IF explain.kind = "timeout" THEN Raised
    ELSE IF explain.kind = "raised" THEN ErrorPrefix \o explain.message
    ELSE IF explain.returncode = 0 THEN Strip(explain.stdout)
    ELSE IF suggest.kind = "timeout" THEN Raised
    ELSE IF suggest.kind = "raised" THEN ErrorPrefix \o suggest.message
    ELSE IF suggest.returncode = 0 THEN Strip(suggest.stdout)
    ELSE ErrorPrefix \o suggest.stderr

\* _ask_via_cli, given what the "explain" run and the "suggest" run do; the
\* second is run only after the first returned a non-zero code. Both runs are
\* inside the try: TimeoutExpired and every other Exception become a string
ask_via_cli(explain, suggest) ==
    IF explain.kind = "timeout" THEN TimedOut
    ELSE IF explain.kind = "raised" THEN ErrorPrefix \o explain.message
    ELSE IF explain.returncode = 0 THEN Strip(explain.stdout)
    ELSE IF suggest.kind = "timeout" THEN TimedOut
    ELSE IF suggest.kind = "raised" THEN ErrorPrefix \o suggest.message
    ELSE IF suggest.returncode = 0 THEN Strip(suggest.stdout)
    ELSE ErrorPrefix \o suggest.stderr

\* ask_copilot(prompt) with the default use_cli = True, as every caller has it
ask_copilot(prompt, explain, suggest) == ask_via_cli(explain, suggest)

\* the request did not get generated text
RequestFailed(explain, suggest) ==
    \/ explain.kind # "returned"
    \/ explain.returncode # 0 /\ (suggest.kind # "returned" \/ suggest.returncode # 0)

\* the backend runs a request may meet: at most MaxFailures requests fail in a run
Backend(explain, suggest) == RequestFailed(explain, suggest) => failures < MaxFailures

----------------------------------------------------------------------------
(* DocumentationGenerator *)

\* controller['content'][:2000]
ApiCodeLimit == 2000

\* file_info['content'][:1500]
ExplainCodeLimit == 1500

\* key_dependencies[:10]
MaxKeyDependencies == 10

\* key_dependencies[:5]
MaxListedDependencies == 5

\* structure['controllers'][:2] and structure['services'][:2]
MaxExplained == 2

RECURSIVE SplitLines(_)
\* str.split('\n')
SplitLines(s) ==
    IF \A k \in 1..Len(s) : s[k] # "\n" THEN <<s>>
    ELSE LET nl == CHOOSE k \in 1..Len(s) :
                     s[k] = "\n" /\ \A j \in 1..(k - 1) : s[j] # "\n"
         IN <<SubSeq(s, 1, nl - 1)>> \o SplitLines(SubSeq(s, nl + 1, Len(s)))

ArtifactTag == <<"<","a","r","t","i","f","a","c","t","I","d",">">>

HasArtifactTag(line) == Contains(line, ArtifactTag)

StripAll(lines) == [k \in 1..Len(lines) |-> Strip(lines[k])]

\* [line.strip() for line in pom_lines if '<artifactId>' in line][:10]
KeyDependencies(pom_text) ==
    Prefix(StripAll(SelectSeq(SplitLines(pom_text), HasArtifactTag)), MaxKeyDependencies)

Names(bucket) == [k \in 1..Len(bucket) |-> bucket[k].name]

\* the values the overview template interpolates
OverviewPrompt(st, pom_text) ==
    [section |-> "overview",
     counts |-> <<Len(st.controllers), Len(st.services), Len(st.repositories),
                  Len(st.models), Len(st.dtos)>>,
     dependencies |-> Prefix(KeyDependencies(pom_text), MaxListedDependencies),
     controllers |-> Names(st.controllers),
     services |-> Names(st.services)]

\* the values the architecture template interpolates
ArchitecturePrompt(st) ==
    [section |-> "architecture",
     controllers |-> Names(st.controllers),
     services |-> Names(st.services),
     repositories |-> Names(st.repositories)]

\* ApiPrompt cut at the limit of the code explanation
ApiPromptExplainLimit(controllers) ==
    [section |-> "api", code |-> Prefix(controllers[1].content, ExplainCodeLimit)]

\* the value the API documentation template interpolates
ApiPrompt(controllers) ==
    [section |-> "api", code |-> Prefix(controllers[1].content, ApiCodeLimit)]

\* the values the code explanation template interpolates
ExplanationPrompt(file_info) ==
    [section |-> "explanation",
     name |-> file_info.name,
     path |-> file_info.path,
     code |-> Prefix(file_info.content, ExplainCodeLimit)]

NoControllersFound == <<"N","o"," ","c","o","n","t","r","o","l","l","e","r","s"," ","f","o","u","n","d",".">>

\* what a generate_* method did: the string it returned (Raised when an
\* exception left it) and the requests it made, each with the prompt, the
\* response and whether the backend failed
Generated(response, requests) == [response |-> response, requests |-> requests]

Request(prompt, explain, suggest) ==
    [prompt |-> prompt,
     response |-> ask_copilot(prompt, explain, suggest),
     failed |-> RequestFailed(explain, suggest)]

generate_project_overview(st, pom_text, explain, suggest) ==
    Generated(ask_copilot(OverviewPrompt(st, pom_text), explain, suggest),
              <<Request(OverviewPrompt(st, pom_text), explain, suggest)>>)

generate_architecture_description(st, explain, suggest) ==
    Generated(ask_copilot(ArchitecturePrompt(st), explain, suggest),
              <<Request(ArchitecturePrompt(st), explain, suggest)>>)

\* generate_api_documentation without the test for an empty list: it asks
\* about an empty snippet
generate_api_documentation_always_asks(controllers, explain, suggest) ==
    LET prompt == [section |-> "api",
                   code |-> IF controllers = <<>> THEN <<>>
                            ELSE Prefix(controllers[1].content, ApiCodeLimit)]
    IN Generated(ask_copilot(prompt, explain, suggest),
                 <<Request(prompt, explain, suggest)>>)

generate_api_documentation(controllers, explain, suggest) ==
    IF controllers = <<>> THEN Generated(NoControllersFound, <<>>)
    ELSE Generated(ask_copilot(ApiPrompt(controllers), explain, suggest),
                   <<Request(ApiPrompt(controllers), explain, suggest)>>)

\* generate_code_explanation that sends the prompt again when the backend failed
generate_code_explanation_retrying(file_info, explain, suggest) ==
    Generated(ask_copilot(ExplanationPrompt(file_info), explain, suggest),
              IF RequestFailed(explain, suggest)
              THEN <<Request(ExplanationPrompt(file_info), explain, suggest),
                     Request(ExplanationPrompt(file_info), explain, suggest)>>
              ELSE <<Request(ExplanationPrompt(file_info), explain, suggest)>>)

generate_code_explanation(file_info, explain, suggest) ==
    Generated(ask_copilot(ExplanationPrompt(file_info), explain, suggest),
              <<Request(ExplanationPrompt(file_info), explain, suggest)>>)

\* the backend failures among the requests of one generate_* call
Failures(g) == Len(SelectSeq(g.requests, LAMBDA r : r.failed))

\* where main goes after a generate_* call: on, or out when the call raised
After(g, next) == IF g.response = Raised THEN "crashed" ELSE next

\* overview = doc_gen.generate_project_overview(structure, pom_content)
GenerateProjectOverview ==
    /\ pc = "overview"
    /\ \E explain \in RunOutcomes : \E suggest \in SuggestOutcomes(explain) :
          LET g == generate_project_overview(structure, pom_content, explain, suggest)
          IN /\ Backend(explain, suggest)
             /\ overview' = IF g.response = Raised THEN overview ELSE g.response
             /\ calls' = calls \o g.requests
             /\ failures' = failures + Failures(g)
             /\ pc' = After(g, "architecture")
    /\ UNCHANGED <<call_vars, tree, java_files, i, structure, pom_content, mermaid_diagrams,
                   architecture, api_docs, component_docs, full_documentation>>

\* architecture = doc_gen.generate_architecture_description(structure)
GenerateArchitectureDescription ==
    /\ pc = "architecture"
    /\ \E explain \in RunOutcomes : \E suggest \in SuggestOutcomes(explain) :
          LET g == generate_architecture_description(structure, explain, suggest)
          IN /\ Backend(explain, suggest)
             /\ architecture' = IF g.response = Raised THEN architecture ELSE g.response
             /\ calls' = calls \o g.requests
             /\ failures' = failures + Failures(g)
             /\ pc' = After(g, "api")
    /\ UNCHANGED <<call_vars, tree, java_files, i, structure, pom_content, mermaid_diagrams,
                   overview, api_docs, component_docs, full_documentation>>

\* api_docs = doc_gen.generate_api_documentation(structure['controllers'])
GenerateApiDocumentation ==
    /\ pc = "api"
    /\ \E explain \in RunOutcomes : \E suggest \in SuggestOutcomes(explain) :
          LET g == generate_api_documentation(structure.controllers, explain, suggest)
          IN /\ Backend(explain, suggest)
             /\ api_docs' = IF g.response = Raised THEN api_docs ELSE g.response
             /\ calls' = calls \o g.requests
             /\ failures' = failures + Failures(g)
             /\ pc' = After(g, "explain_controllers")
    /\ i' = 1
    /\ UNCHANGED <<call_vars, tree, java_files, structure, pom_content, mermaid_diagrams,
                   overview, architecture, component_docs, full_documentation>>

\* one iteration of "for controller in structure['controllers'][:2]"
ExplainController ==
    /\ pc = "explain_controllers"
    /\ i <= Len(Prefix(structure.controllers, MaxExplained))
    /\ \E explain \in RunOutcomes : \E suggest \in SuggestOutcomes(explain) :
          LET g == generate_code_explanation(structure.controllers[i], explain, suggest)
          IN /\ Backend(explain, suggest)
             /\ component_docs' = IF g.response = Raised THEN component_docs
                                  ELSE Append(component_docs, g.response)
             /\ calls' = calls \o g.requests
             /\ failures' = failures + Failures(g)
             /\ pc' = After(g, "explain_controllers")
    /\ i' = i + 1
    /\ UNCHANGED <<call_vars, tree, java_files, structure, pom_content, mermaid_diagrams,
                   overview, architecture, api_docs, full_documentation>>

\* the controller loop is exhausted; the service loop starts
EndControllerLoop ==
    /\ pc = "explain_controllers"
    /\ i > Len(Prefix(structure.controllers, MaxExplained))
    /\ i' = 1
    /\ pc' = "explain_services"
    /\ UNCHANGED <<call_vars, tree, java_files, structure, pom_content, mermaid_diagrams,
                   overview, architecture, api_docs, component_docs,
                   full_documentation, calls, failures>>

\* one iteration of "for service in structure['services'][:2]"
ExplainService ==
    /\ pc = "explain_services"
    /\ i <= Len(Prefix(structure.services, MaxExplained))
    /\ \E explain \in RunOutcomes : \E suggest \in SuggestOutcomes(explain) :
          LET g == generate_code_explanation(structure.services[i], explain, suggest)
          IN /\ Backend(explain, suggest)
             /\ component_docs' = IF g.response = Raised THEN component_docs
                                  ELSE Append(component_docs, g.response)
             /\ calls' = calls \o g.requests
             /\ failures' = failures + Failures(g)
             /\ pc' = After(g, "explain_services")
    /\ i' = i + 1
    /\ UNCHANGED <<call_vars, tree, java_files, structure, pom_content, mermaid_diagrams,
                   overview, architecture, api_docs, full_documentation>>

\* the service loop is exhausted
EndServiceLoop ==
    /\ pc = "explain_services"
    /\ i > Len(Prefix(structure.services, MaxExplained))
    /\ pc' = "compile"
    /\ UNCHANGED <<call_vars, tree, java_files, i, structure, pom_content, mermaid_diagrams,
                   overview, architecture, api_docs, component_docs,
                   full_documentation, calls, failures>>

Section(kind, body) == [kind |-> kind, body |-> body]

\* the lines f"- **{name}** - `{path}`" of one bucket
Listing(bucket) == [k \in 1..Len(bucket) |-> <<bucket[k].name, bucket[k].path>>]

\* the f-string full_documentation of main, section by section
Compiled(st, ov, arch, api, components, diagrams) ==
    << Section("title", "Spring Boot CRUD REST Application"),
       Section("overview", ov),
       Section("architecture", arch),
       Section("api", api),
       Section("components", components),
       Section("diagrams", diagrams),
       Section("files", [controllers |-> Listing(st.controllers),
                         services |-> Listing(st.services),
                         repositories |-> Listing(st.repositories),
                         models |-> Listing(st.models),
                         dtos |-> Listing(st.dtos)]),
       Section("footer", "Generated automatically using GitHub Copilot") >>

\* full_documentation = f"""...""" and doc_path.write_text(full_documentation)
CompileDocumentation ==
    /\ pc = "compile"
    /\ full_documentation' =
          Compiled(structure, overview, architecture, api_docs, component_docs,
                   mermaid_diagrams)
    /\ pc' = "done"
    /\ UNCHANGED <<call_vars, tree, java_files, i, structure, pom_content, mermaid_diagrams,
                   overview, architecture, api_docs, component_docs, calls, failures>>

Init == InitWith(PipelineFiles)

Next ==
    \/ FindJavaFiles \/ ClassifyFile \/ AnalyzeReturn \/ ReadPomXml \/ RenderDiagrams
    \/ GenerateProjectOverview \/ GenerateArchitectureDescription
    \/ GenerateApiDocumentation \/ ExplainController \/ EndControllerLoop
    \/ ExplainService \/ EndServiceLoop \/ CompileDocumentation

\* main of tech_doc_generator.py, after the client and the analyzer are built
Spec == Init /\ [][Next]_vars

----------------------------------------------------------------------------
(* The pipeline on files whose content is as long as the truncation limits *)

\* a text of n characters in which neighbouring positions differ
LongText(n) == [k \in 1..n |-> Digit[(k % 10) + 1]]

\* content lengths around both limits
Lengths ==
    {0, 1} \cup { limit + d : limit \in {ExplainCodeLimit, ApiCodeLimit}, d \in -1..MaxOver }

\* a tree of one controller and one service with a content of the same length
InitTrunc ==
    /\ \E n \in Lengths :
          tree = { File(<<kwController>>, JavaName(<<"A">>), TRUE, LongText(n)),
                   File(<<kwService>>, JavaName(<<"S">>), TRUE, LongText(n)) }
    /\ java_files = <<>>
    /\ i = 0
    /\ structure = EmptyStructure
    /\ pom_content = Unset
    /\ mermaid_diagrams = Unset
    /\ overview = Unset
    /\ architecture = Unset
    /\ api_docs = Unset
    /\ component_docs = <<>>
    /\ full_documentation = <<>>
    /\ calls = <<>>
    /\ failures = 0
    /\ pc = "find"
    /\ NoDirectCall

SpecTrunc == InitTrunc /\ [][Next]_vars

----------------------------------------------------------------------------
(* CodebaseAnalyzer.get_file_summary *)

\* for line in lines[:30]
SummaryLineLimit == 30

\* largest number of lines a summarized file has beyond the lines inspected
MaxBeyond == 5

\* str.startswith
StartsWith(s, prefix) ==
    /\ Len(prefix) <= Len(s)
    /\ \A k \in 1..Len(prefix) : s[k] = prefix[k]

AtSign == <<"@">>

PublicClass == <<"p","u","b","l","i","c"," ","c","l","a","s","s">>

PublicInterface == <<"p","u","b","l","i","c"," ","i","n","t","e","r","f","a","c","e">>

\* line.startswith('@') or line.startswith('public class') or
\* line.startswith('public interface')
IsKeyLine(line) ==
    \/ StartsWith(line, AtSign)
    \/ StartsWith(line, PublicClass)
    \/ StartsWith(line, PublicInterface)

\* summary += f"- {line}\n" for each line of a list, in order
RECURSIVE Bullets(_)
Bullets(lines) ==
    IF lines = <<>> THEN <<>>
    ELSE <<"-", " ">> \o Head(lines) \o <<"\n">> \o Bullets(Tail(lines))

\* KeyLines that inspects every line of the content
KeyLinesUnlimited(content) ==
    SelectSeq(StripAll(SplitLines(content)), IsKeyLine)

\* the loop of get_file_summary: the stripped lines it adds, of the first 30
KeyLines(content) ==
    SelectSeq(StripAll(Prefix(SplitLines(content), SummaryLineLimit)), IsKeyLine)

\* the summary: the name and the path of its two heading lines, and the
\* text added after them
get_file_summary(file_info) ==
    [name |-> file_info.name,
     path |-> file_info.path,
     digest |-> Bullets(KeyLines(file_info.content))]

\* '\n'.join(lines)
RECURSIVE Join(_)
Join(lines) ==
    IF lines = <<>> THEN <<>>
    ELSE IF Len(lines) = 1 THEN lines[1]
    ELSE Head(lines) \o <<"\n">> \o Join(Tail(lines))

PlainLine == <<"x">>

\* the lines a summarized content is made of
LineKinds ==
    { PlainLine,
      <<>>,
      <<"@","R">>,
      <<" "," ","@","S","\t">>,
      <<"p","u","b","l","i","c"," ","c","l","a","s","s"," ","A"," ","{">>,
      <<" ","p","u","b","l","i","c"," ","i","n","t","e","r","f","a","c","e"," ","I","\r">>,
      <<"p","u","b","l","i","c","c","l","a","s","s"," ","B">>,
      <<"/","/"," ","@","R">>,
      <<"p","r","i","v","a","t","e"," ","c","l","a","s","s"," ","C">> }

\* the numbers of lines of the summarized contents
LineCounts ==
    { 1, SummaryLineLimit - 1, SummaryLineLimit, SummaryLineLimit + 1,
      SummaryLineLimit + MaxBeyond }

\* the positions where a content has a line that is not plain
Marks(n) ==
    { 1, 2, SummaryLineLimit - 1, SummaryLineLimit, SummaryLineLimit + 1,
      SummaryLineLimit + MaxBeyond - 1, SummaryLineLimit + MaxBeyond } \cap 1..n

\* a content of n lines, plain but at the positions p and q
Content(n, p, a, q, b) ==
    Join([k \in 1..n |-> IF k = p THEN a ELSE IF k = q THEN b ELSE PlainLine])

\* the state before a call of get_file_summary on a file of the java tree
InitSummary ==
    /\ tree = {}
    /\ java_files = <<>>
    /\ i = 0
    /\ structure = EmptyStructure
    /\ pom_content = Unset
    /\ mermaid_diagrams = Unset
    /\ overview = Unset
    /\ architecture = Unset
    /\ api_docs = Unset
    /\ component_docs = <<>>
    /\ full_documentation = <<>>
    /\ calls = <<>>
    /\ failures = 0
    /\ pc = "summary"
    /\ \E n \in LineCounts : \E p, q \in Marks(n) : \E a, b \in LineKinds :
          /\ p < q \/ (p = q /\ a = b)
          /\ summarized = FileInfo(File(<<kwModel>>, JavaName(<<"M">>), TRUE,
                                        Content(n, p, a, q, b)))
    /\ summary = Unset
    /\ cli_prompt = Unset
    /\ attempts = <<>>
    /\ cli_result = Unset

\* summary = analyzer.get_file_summary(file_info)
GetFileSummary ==
    /\ pc = "summary"
    /\ summary' = get_file_summary(summarized)
    /\ pc' = "summarized"
    /\ UNCHANGED <<tree, java_files, i, structure, pom_content, mermaid_diagrams,
                   overview, architecture, api_docs, component_docs,
                   full_documentation, calls, failures, summarized, cli_prompt,
                   attempts, cli_result>>

NextSummary == GetFileSummary

SpecSummary == InitSummary /\ [][NextSummary]_vars

----------------------------------------------------------------------------
(* GitHubCopilotClient._ask_via_cli, one subprocess.run at a time *)

\* largest return code of a gh process
MaxReturnCode == 2

\* what one subprocess.run of gh can do: return with a return code, an
\* output and an error output; run into the timeout; raise
CliOutcomes ==
    { Run("returned", rc, out, err, <<>>) :
        rc \in 0..MaxReturnCode, out \in {<<>>, <<" ","o","k","\n">>}, err \in {<<>>, <<"n","o">>} }
    \cup { Run("timeout", 0, <<>>, <<>>, <<>>) }
    \cup { Run("raised", 0, <<>>, <<>>, m) : m \in {<<>>, <<"g","h">>} }

CliPrompts == { <<"p">>, <<"q">> }

\* subprocess.run(["gh", "copilot", command, prompt], ...)
Attempt(command, prompt, outcome) ==
    [command |-> command, prompt |-> prompt, outcome |-> outcome]

\* what the except clauses return
Caught(o) == IF o.kind = "timeout" THEN TimedOut ELSE ErrorPrefix \o o.message

\* ExplainEnds that falls through to "suggest" on everything but a success
ExplainEndsOnSuccessOnly(o) == o.kind = "returned" /\ o.returncode = 0

\* the call ends with the "explain" run: it raised, or returned code 0
ExplainEnds(o) == o.kind # "returned" \/ o.returncode = 0

\* the value returned when the call ends with the "explain" run
ExplainResult(o) == IF o.kind = "returned" THEN Strip(o.stdout) ELSE Caught(o)

\* the value returned after the "suggest" run
SuggestResult(o) ==
    IF o.kind # "returned" THEN Caught(o)
    ELSE IF o.returncode = 0 THEN Strip(o.stdout)
    ELSE ErrorPrefix \o o.stderr

\* the state at the call of _ask_via_cli(prompt)
InitCli ==
    /\ tree = {}
    /\ java_files = <<>>
    /\ i = 0
    /\ structure = EmptyStructure
    /\ pom_content = Unset
    /\ mermaid_diagrams = Unset
    /\ overview = Unset
    /\ architecture = Unset
    /\ api_docs = Unset
    /\ component_docs = <<>>
    /\ full_documentation = <<>>
    /\ calls = <<>>
    /\ failures = 0
    /\ pc = "cli_explain"
    /\ summarized = Unset
    /\ summary = Unset
    /\ cli_prompt \in CliPrompts
    /\ attempts = <<>>
    /\ cli_result = Unset

\* the first subprocess.run and the return or the branch after it
RunExplain ==
    /\ pc = "cli_explain"
    /\ \E o \in CliOutcomes :
          /\ attempts' = Append(attempts, Attempt("explain", cli_prompt, o))
          /\ IF ExplainEnds(o)
             THEN cli_result' = ExplainResult(o) /\ pc' = "cli_returned"
             ELSE cli_result' = cli_result /\ pc' = "cli_suggest"
    /\ UNCHANGED <<tree, java_files, i, structure, pom_content, mermaid_diagrams,
                   overview, architecture, api_docs, component_docs,
                   full_documentation, calls, failures, summarized, summary,
                   cli_prompt>>

\* the second subprocess.run and the return after it
RunSuggest ==
    /\ pc = "cli_suggest"
    /\ \E o \in CliOutcomes :
          /\ attempts' = Append(attempts, Attempt("suggest", cli_prompt, o))
          /\ cli_result' = SuggestResult(o)
    /\ pc' = "cli_returned"
    /\ UNCHANGED <<tree, java_files, i, structure, pom_content, mermaid_diagrams,
                   overview, architecture, api_docs, component_docs,
                   full_documentation, calls, failures, summarized, summary,
                   cli_prompt>>

NextCli == RunExplain \/ RunSuggest

\* each subprocess.run ends: it returns, raises, or is stopped by timeout=60
SpecCli == InitCli /\ [][NextCli]_vars /\ WF_vars(NextCli)

----------------------------------------------------------------------------
(* Properties of analyze_structure *)

Range(seq) == { seq[k] : k \in 1..Len(seq) }

\* the buckets that hold the k-th entry of all_files
BucketsOf(k) == { b \in BucketNames : structure.all_files[k] \in Range(structure[b]) }

\* analyze_structure has returned
Analyzed == pc \notin {"find", "classify"}

\* C1: all_files holds exactly one entry per discovered file, in the order of
\* discovery (after every loop step one entry per file processed so far, after
\* the return as many entries as the scanned subpath has files), and every
\* entry of each of the six buckets is an entry of all_files.
C1_AllFilesComplete ==
    /\ pc = "classify" => Len(structure.all_files) = i - 1
    /\ Analyzed =>
          /\ Len(structure.all_files) = Cardinality(tree)
          /\ { e.path : e \in Range(structure.all_files) } = { RelativePath(f) : f \in tree }
    /\ \A k \in 1..Len(structure.all_files) :
          /\ structure.all_files[k].name = java_files[k].name
          /\ structure.all_files[k].path = RelativePath(java_files[k])
    /\ \A b \in BucketNames : Range(structure[b]) \subseteq Range(structure.all_files)

\* a tree of MaxFiles files is analysed, with a file in a bucket and a file in none
C1_Witness ==
    /\ Analyzed
    /\ Len(structure.all_files) = MaxFiles
    /\ \E k \in 1..Len(structure.all_files) : BucketsOf(k) = {}
    /\ \E k \in 1..Len(structure.all_files) : BucketsOf(k) # {}

\* the rules in their order: the keyword and the bucket of each
RuleKeywords == <<kwController, kwService, kwRepository, kwModel, kwConfig>>

RuleBuckets == <<"controllers", "services", "repositories", "models", "config">>

\* the rules a lower-cased directory name matches
Matching(name) == { r \in 1..5 : Contains(name, RuleKeywords[r]) }

\* the first of a set of rules
FirstOf(rules) == CHOOSE r \in rules : \A q \in rules : r <= q

\* the buckets the rules give a lower-cased directory name: none, or the one of
\* the first matching rule, the model rule giving dtos when the name has "dto"
RuledBuckets(name) ==
    LET rules == Matching(name)
    IN IF rules = {} THEN {}
       ELSE IF FirstOf(rules) = 4 /\ Contains(name, kwDto) THEN {"dtos"}
       ELSE {RuleBuckets[FirstOf(rules)]}

\* C2: each file is in at most one bucket, the one of the first rule (in the
\* order controller, service, repository, model with its dto split, config)
\* that matches the lower-cased name of its directory; "controllerService"
\* gives controllers; a name without a keyword gives no bucket, and the file
\* is in all_files all the same.
C2_FirstMatchWins ==
    \A k \in 1..Len(structure.all_files) :
        LET buckets == BucketsOf(k)
        IN /\ Cardinality(buckets) <= 1
           /\ buckets = RuledBuckets(Lower(ParentName(java_files[k])))
           /\ ParentName(java_files[k]) = dControllerService => buckets = {"controllers"}
           /\ \A b \in buckets :
                 Len(SelectSeq(structure[b], LAMBDA e : e = structure.all_files[k])) = 1

\* a file of "controllerService" is in controllers and a file of a directory
\* without keyword is in all_files and in no bucket
C2_Witness ==
    /\ Analyzed
    /\ \E k \in 1..Len(structure.all_files) :
          /\ ParentName(java_files[k]) = dControllerService
          /\ structure.all_files[k] \in Range(structure.controllers)
    /\ \E k \in 1..Len(structure.all_files) :
          /\ Matching(Lower(ParentName(java_files[k]))) = {}
          /\ BucketsOf(k) = {}

\* the lower-cased directory name of the k-th file has both "dto" and "model"
DtoAndModel(k) ==
    LET name == Lower(ParentName(java_files[k]))
    IN Contains(name, kwDto) /\ Contains(name, kwModel)

\* C3 as stated: every file whose directory name contains both "dto" and
\* "model" is in dtos and never in models.
C3_Original ==
    \A k \in 1..Len(structure.all_files) :
        DtoAndModel(k) =>
            /\ structure.all_files[k] \in Range(structure.dtos)
            /\ structure.all_files[k] \notin Range(structure.models)

\* C3, amended: a file whose directory name contains both "dto" and "model" is
\* never in models, and it is in dtos (and in no other bucket) when the name
\* contains none of "controller", "service", "repository", the keywords of the
\* rules tried before the model rule.
C3_DtoBeforeModel ==
    \A k \in 1..Len(structure.all_files) :
        DtoAndModel(k) =>
            /\ structure.all_files[k] \notin Range(structure.models)
            /\ Matching(Lower(ParentName(java_files[k]))) \cap {1, 2, 3} = {}
                  => BucketsOf(k) = {"dtos"}

\* a file of a directory with "dto" and "model" in its name is in dtos, and
\* another one, whose directory name also has "service", is in services
C3_Witness ==
    /\ \E k \in 1..Len(structure.all_files) :
          DtoAndModel(k) /\ BucketsOf(k) = {"dtos"}
    /\ \E k \in 1..Len(structure.all_files) :
          DtoAndModel(k) /\ BucketsOf(k) = {"services"}

\* C6: a file whose read fails gets its entry, with the error string as
\* content, in all_files and in the bucket its directory name gives (the one a
\* readable file of the same directory gets), and the files after it are
\* processed: after the return all_files has an entry for every file.
C6_ReadFailureClassified ==
    /\ \A k \in 1..Len(structure.all_files) :
          ~java_files[k].readable =>
              LET buckets == BucketsOf(k)
              IN /\ structure.all_files[k].content = ErrorReadingFile
                 /\ structure.all_files[k].path = RelativePath(java_files[k])
                 /\ buckets = RuledBuckets(Lower(ParentName(java_files[k])))
                 /\ \A j \in 1..Len(structure.all_files) :
                       ParentName(java_files[j]) = ParentName(java_files[k])
                           => BucketsOf(j) = buckets
    /\ Analyzed => Len(structure.all_files) = Len(java_files)

\* an unreadable file is in controllers next to a readable file of the same
\* directory, and a file after it has been processed
C6_Witness ==
    /\ Analyzed
    /\ \E k, j \in 1..Len(structure.all_files) :
          /\ ~java_files[k].readable
          /\ java_files[j].readable
          /\ k < j
          /\ ParentName(java_files[j]) = ParentName(java_files[k])
          /\ structure.all_files[k].content = ErrorReadingFile
          /\ structure.all_files[k] \in Range(structure.controllers)
          /\ structure.all_files[j] \in Range(structure.controllers)

----------------------------------------------------------------------------
(* Properties of the pipeline *)

\* generate_api_documentation has returned
AfterApi == pc \in {"explain_controllers", "explain_services", "compile", "done"}

ApiCalls == SelectSeq(calls, LAMBDA r : r.prompt.section = "api")

\* C4: with an empty controllers list generate_api_documentation returns
\* "No controllers found." and ask_copilot is not called by it (the two calls
\* made before it stay the only ones); with a non-empty list it calls
\* ask_copilot once and returns the response.
C4_NoControllersNoRequest ==
    AfterApi =>
        IF structure.controllers = <<>>
        THEN /\ api_docs = NoControllersFound
             /\ ApiCalls = <<>>
             /\ pc = "explain_controllers" => Len(calls) = 2
        ELSE /\ Len(ApiCalls) = 1
             /\ calls[3].prompt.section = "api"
             /\ api_docs = calls[3].response

\* a run over a tree with services and no controller has finished
C4_Witness ==
    /\ pc = "done"
    /\ structure.controllers = <<>>
    /\ structure.services # <<>>
    /\ api_docs = NoControllersFound
    /\ full_documentation[4].body = NoControllersFound

\* the number of ask_copilot calls of a run over c controllers and s services
CallCount(c, s) == 2 + (IF c > 0 THEN 1 ELSE 0) + Min(2, c) + Min(2, s)

SectionKinds ==
    <<"title", "overview", "architecture", "api", "components", "diagrams",
      "files", "footer">>

\* the text begins with "Error: "
IsErrorText(text) ==
    Len(text) >= Len(ErrorPrefix) /\ SubSeq(text, 1, Len(ErrorPrefix)) = ErrorPrefix

\* the calls before the code explanations
CallsBeforeExplanations == 2 + (IF structure.controllers = <<>> THEN 0 ELSE 1)

\* C5: no failed request ends the run: every call of ask_copilot returns a
\* string, an error text when the backend failed; main is never left after a
\* request was made, and while it is not finished it can take its next step;
\* the finished document has the eight sections in their order, each
\* response, error text or not, at the place of its section, and all the
\* requests of the run were made.
C5_FailuresDoNotAbort ==
    /\ \A k \in 1..Len(calls) :
          /\ calls[k].response # Raised
          /\ calls[k].failed => IsErrorText(calls[k].response)
    /\ pc = "crashed" => calls = <<>>
    /\ (failures > 0 /\ pc # "done") => ENABLED Next
    /\ pc = "done" =>
          /\ [k \in 1..Len(full_documentation) |-> full_documentation[k].kind] = SectionKinds
          /\ Len(calls) = CallCount(Len(structure.controllers), Len(structure.services))
          /\ full_documentation[2].body = calls[1].response
          /\ full_documentation[3].body = calls[2].response
          /\ full_documentation[4].body =
                IF structure.controllers = <<>> THEN NoControllersFound
                ELSE calls[3].response
          /\ full_documentation[5].body =
                [k \in 1..(Len(calls) - CallsBeforeExplanations) |->
                    calls[CallsBeforeExplanations + k].response]
          /\ full_documentation[6].body = generate_mermaid_diagrams(structure)

\* a run has finished although its first request timed out, and the error
\* text is the overview section
C5_Witness ==
    /\ pc = "done"
    /\ Len(calls) >= 4
    /\ calls[1].failed
    /\ calls[1].response = TimedOut
    /\ full_documentation[2].body = TimedOut

\* what a call asked about: the section, and the path of the explained file
Asked(prompt) ==
    <<prompt.section, IF prompt.section = "explanation" THEN prompt.path ELSE <<>>>>

\* the explanation requests for the first two entries of a bucket
ExplanationsOf(bucket) ==
    [k \in 1..Min(2, Len(bucket)) |-> <<"explanation", bucket[k].path>>]

\* the requests of a run over an inventory, in their order
ExpectedCalls(st) ==
    <<<<"overview", <<>>>>, <<"architecture", <<>>>>>>
    \o (IF st.controllers = <<>> THEN <<>> ELSE <<<<"api", <<>>>>>>)
    \o ExplanationsOf(st.controllers)
    \o ExplanationsOf(st.services)

----------------------------------------------------------------------------
(* Properties of generate_mermaid_diagrams *)

\* generate_mermaid_diagrams has returned
Rendered == pc \notin {"find", "classify", "pom", "diagrams", "crashed"}

NodeIds == { n.id : n \in Range(mermaid_diagrams.nodes) }

EdgePairs == { <<e.from, e.to>> : e \in Range(mermaid_diagrams.edges) }

EdgeEnds == { e.from : e \in Range(mermaid_diagrams.edges) }
            \cup { e.to : e \in Range(mermaid_diagrams.edges) }

\* the identifiers prefix0 .. prefix(n-1)
LayerIds(prefix, n) == { <<prefix>> \o Str(k) : k \in 0..(n - 1) }

\* C8: for an empty Inventory the graph has the client and the datastore as
\* its only nodes: no identifier C<i>, S<i> or R<i> is declared and none is an
\* endpoint of an edge.
C8_EmptyInventoryGraph ==
    (Rendered /\ structure = EmptyStructure) =>
        /\ NodeIds = {ClientId, DbId}
        /\ (NodeIds \cup EdgeEnds)
              \cap UNION { LayerIds(p, MaxFiles + 1) : p \in {"C", "S", "R"} } = {}

\* C9: the graph declares one node per controller, service and repository,
\* the client and the datastore; its edges are client to C0, Ci to Si for
\* i < min(c, s), Si to Ri for i < min(s, r) and Ri to the datastore for i < r,
\* each once; every endpoint of an edge is a declared node.
C9_GraphShape ==
    Rendered =>
        LET c == Len(structure.controllers)
            s == Len(structure.services)
            r == Len(structure.repositories)
        IN /\ NodeIds = {ClientId, DbId} \cup LayerIds("C", c) \cup LayerIds("S", s)
                            \cup LayerIds("R", r)
           /\ Len(mermaid_diagrams.nodes) = c + s + r + 2
           /\ EdgePairs =
                 {<<ClientId, <<"C">> \o Str(0)>>}
                 \cup { <<<<"C">> \o Str(k), <<"S">> \o Str(k)>> : k \in 0..(Min(c, s) - 1) }
                 \cup { <<<<"S">> \o Str(k), <<"R">> \o Str(k)>> : k \in 0..(Min(s, r) - 1) }
                 \cup { <<<<"R">> \o Str(k), DbId>> : k \in 0..(r - 1) }
           /\ Len(mermaid_diagrams.edges) = 1 + Min(c, s) + Min(s, r) + r
           /\ EdgeEnds \subseteq NodeIds

----------------------------------------------------------------------------
(* Properties of the truncation *)

\* code is the first min(limit, length) characters of content
IsCut(code, content, limit) ==
    /\ Len(code) = Min(limit, Len(content))
    /\ code = [k \in 1..Len(code) |-> content[k]]
    /\ Len(content) <= limit => code = content

\* the content of the file with a path
ContentAt(path) ==
    (CHOOSE e \in Range(structure.all_files) : e.path = path).content

\* C10: the code in the API documentation prompt is the first
\* min(2000, length) characters of the first controller's content, and the
\* code in a code explanation prompt is the first min(1500, length) characters
\* of the file's content: whole up to the limit, cut to the limit above it.
\* Stated of the latest call, which every call is when it is made.
C10_TruncationIsPrefix ==
    calls # <<>> =>
        LET prompt == calls[Len(calls)].prompt
        IN /\ prompt.section = "api" =>
                 IsCut(prompt.code, structure.controllers[1].content, 2000)
           /\ prompt.section = "explanation" =>
                 IsCut(prompt.code, ContentAt(prompt.path), 1500)

\* the API documentation was asked for a controller of 2001 characters, and
\* the prompt has the first 2000 of them
C10_Witness ==
    \E k \in 1..Len(calls) :
        /\ calls[k].prompt.section = "api"
        /\ Len(structure.controllers[1].content) = 2001
        /\ Len(calls[k].prompt.code) = 2000

----------------------------------------------------------------------------
(* Properties of get_file_summary *)

\* the positions of the line breaks of a text, in order
Breaks(text) ==
    LET IsBreak(p) == text[p] = "\n"
    IN SelectSeq([p \in 1..Len(text) |-> p], IsBreak)

LineCount(text) == Len(Breaks(text)) + 1

\* the k-th line of a text: what lies between two line breaks
LineAt(text, k) ==
    LET b == Breaks(text)
        from == IF k = 1 THEN 1 ELSE b[k - 1] + 1
        to == IF k > Len(b) THEN Len(text) ELSE b[k] - 1
    IN [j \in 1..(to - from + 1) |-> text[from + j - 1]]

\* the k-th line of the summarized content starts, once trimmed, with "@",
\* "public class" or "public interface"
IsKeyPosition(k) == IsKeyLine(Strip(LineAt(summarized.content, k)))

\* the positions of such lines among the first 30 lines, in source order
KeyPositions ==
    SelectSeq([k \in 1..Min(30, LineCount(summarized.content)) |-> k], IsKeyPosition)

\* C11: the digest lines of the summary are exactly the trimmed lines that
\* start with "@", "public class" or "public interface" among the first 30
\* lines of the content, one "- " line per such position, in source order;
\* nothing of line 31 or later is in the digest.
C11_DigestOfFirstLines ==
    pc = "summarized" =>
        LET out == SplitLines(summary.digest)
        IN /\ Len(out) = Len(KeyPositions) + 1
           /\ out[Len(out)] = <<>>
           /\ \A j \in 1..Len(KeyPositions) :
                 out[j] = <<"-", " ">> \o Strip(LineAt(summarized.content, KeyPositions[j]))

\* a file whose only annotation is on line 35 was summarized, and its digest
\* has no line
C11_Witness ==
    /\ pc = "summarized"
    /\ LineCount(summarized.content) >= 35
    /\ StartsWith(Strip(LineAt(summarized.content, 35)), AtSign)
    /\ KeyPositions = <<>>
    /\ summary.digest = <<>>

----------------------------------------------------------------------------
(* Properties of _ask_via_cli *)

\* the outcome of the k-th subprocess run of the call
Outcome(k) == attempts[k].outcome

\* a run that raised: the timeout or another exception
Threw(k) == Outcome(k).kind \in {"timeout", "raised"}

\* a run that returned with a non-zero return code
NonZero(k) == Outcome(k).kind = "returned" /\ Outcome(k).returncode # 0

\* a run that returned with return code 0
Zero(k) == Outcome(k).kind = "returned" /\ Outcome(k).returncode = 0

\* the attempts made so far and the value returned, against the rules of the
\* call
CliRules ==
    /\ Len(attempts) <= 2
    /\ Len(attempts) >= 1 => attempts[1].command = "explain"
    /\ Len(attempts) = 2 => attempts[2].command = "suggest" /\ NonZero(1)
    /\ \A k \in 1..Len(attempts) :
          Threw(k) => /\ k = Len(attempts)
                      /\ pc = "cli_returned"
                      /\ StartsWith(cli_result, ErrorPrefix)
    /\ pc # "cli_returned" => cli_result = Unset
    /\ pc = "cli_returned" =>
          /\ Len(attempts) >= 1
          /\ cli_result # Unset
          /\ Zero(1) => Len(attempts) = 1 /\ cli_result = Strip(Outcome(1).stdout)
          /\ NonZero(1) => Len(attempts) = 2
          /\ Len(attempts) = 2 /\ NonZero(2) =>
                cli_result = ErrorPrefix \o Outcome(2).stderr

====
